---- MODULE Spec2Model ----
(***************************************************************************)
(* A model of src/app/query_router.py: DatabasePool (replica selection and *)
(* the throttled lag check), QueryRouter.execute_query (cache probe,       *)
(* routing, tenant binding, circuit breaker with primary fallback) and     *)
(* WriteOptimizer (ingest_telemetry, upsert_hot_attributes).               *)
(*                                                                         *)
(* Every handler is cut into one action per point at which another thread  *)
(* can run or the outside world answers (a pool acquire, a statement, a    *)
(* cache command, a read or a write of a shared attribute).  An answer of  *)
(* the outside world (a statement fails, a pool raises, the cache errors)  *)
(* is a nondeterministic choice.  Optional values are <<>> for None and    *)
(* <<v>> for a value.  Replica indices are 0-based as in the code.         *)
(***************************************************************************)
EXTENDS Integers, Naturals, Sequences, FiniteSets, TLC

(***************************************************************************)
(* Program constants                                                       *)
(***************************************************************************)
\* self._circuit_breaker_threshold = 5
Threshold == 5
\* max_lag_ms=3000 passed by execute_query to get_replica_conn
MaxLagMs == 3000
\* self._replica_lag[i] = 999999  # Mark as unavailable
Unavailable == 999999
\* self._lag_check_interval = 10.0 (seconds)
LagCheckInterval == 10
\* self._flush_interval = 0.1 (seconds), in milliseconds
FlushIntervalMs == 100

(***************************************************************************)
(* Bounds of the model                                                     *)
(***************************************************************************)
\* the failure counter is capped: no further counted failure is injected at the cap
MaxFailures == 6
\* the number of committed hot-attribute writes
MaxVer == 1
\* the largest number of replica pools a configuration is drawn with
MaxReplicas == 2
\* the clock of the lag check stops at this reading (seconds)
MaxTimeS == 20
\* the clock of the ingest path stops at this reading (milliseconds)
MaxTimeMs == 250
\* the number of stage_flush invocations and lag-check runs that are logged
MaxLog == 2
\* the longest list of events ingest_telemetry is called with
MaxEvents == 2

\* the replica hosts of the configuration of the example (two)
ConfiguredReplicas == 2

Threads == {"t1", "t2"}

\* the tenant and entity the calls are about
Tenants == {7}
Entities == {42}

None == <<>>
Some(v) == <<v>>
IsNone(o) == o = <<>>
Val(o) == o[1]

PRIMARY == "primary"
REPLICA == "replica"
REDIS == "redis"

STRONG == "strong"
EVENTUAL == "eventual"
ANALYTICS == "analytics"
ConsistencyLevel == {STRONG, EVENTUAL, ANALYTICS}

(***************************************************************************)
(* Connections.  A connection is named by the pool it comes from and by    *)
(* who took it and as which acquisition of the call: two acquisitions give *)
(* two connections.  idx is -1 for the primary pool.                       *)
(***************************************************************************)
NoConn == [role |-> "none", idx |-> -1, owner |-> "", id |-> 0]
PrimaryConn(t, k) == [role |-> PRIMARY, idx |-> -1, owner |-> t, id |-> k]
ReplicaConn(i, t, k) == [role |-> REPLICA, idx |-> i, owner |-> t, id |-> k]

\* one event of the log a call keeps of what it did to the outside world
Ev(kind, conn, arg) == [ev |-> kind, conn |-> conn, arg |-> arg]

\* the event of a cache command: cache_get, cache_setex, cache_delete, or the
\* same with _error when the command raised
CacheEvent(cmd, answer) ==
    "cache_" \o cmd \o (IF answer = "ok" THEN "" ELSE "_error")

\* a row list: what fetchall() returns when it reads committed version v
Rows(v) == <<v>>
NoRows == <<>>
NoMeta == [source |-> "none", lag_ms |-> 0, consistency |-> "none"]
\* QueryMetadata (sampled_at, a clock reading, is left out)
QueryMetadata(source, lag_ms, consistency) ==
    [source |-> source, lag_ms |-> lag_ms, consistency |-> consistency]

NoRet == [kind |-> "none", rows |-> NoRows, meta |-> NoMeta, err |-> ""]
RetRows(rows, meta) == [kind |-> "rows", rows |-> rows, meta |-> meta, err |-> ""]
RetErr(e) == [kind |-> "error", rows |-> NoRows, meta |-> NoMeta, err |-> e]
RetOk == [kind |-> "ok", rows |-> NoRows, meta |-> NoMeta, err |-> ""]
\* check_replica_lag returns True (the check was made) or False (throttled)
RetBool(b) == [kind |-> IF b THEN "true" ELSE "false", rows |-> NoRows,
               meta |-> NoMeta, err |-> ""]

\* cache_key = f"entity:{tenant_id}:{entity_id}"
EntityCacheKey(tenant_id, entity_id) ==
    "entity:" \o ToString(tenant_id) \o ":" \o ToString(entity_id)

\* the keys callers use
Keys == {EntityCacheKey(t, e) : t \in Tenants, e \in Entities}

VARIABLES
    pc,             \* per thread: where it stands ("idle" between calls)
    op,             \* per thread: the operation of its current or last call
    fr,             \* per thread: the locals of its execute_query call
    wr,             \* per thread: the locals of its WriteOptimizer call
    lg,             \* per thread: the locals of its check_replica_lag call
    ret,            \* per thread: what its last call returned or raised
    log,            \* per thread: the events of its current or last call
    replica_lag,    \* DatabasePool._replica_lag, a function on 0..n-1
    failures,       \* QueryRouter._circuit_breaker_failures
    cache,          \* redis: key -> <<>> (absent) or <<rows>>
    dbver,          \* the committed version of the hot attributes on the primary
    inuse,          \* the connections checked out of the pools
    now,            \* the last reading of time.time(), in the unit of the path
    last_lag_check, \* DatabasePool._last_lag_check
    last_flush,     \* WriteOptimizer._last_flush
    runs,           \* the lag-check runs that did work and the stage_flush calls
    sel             \* the arguments and the result of a get_replica_conn call

vars == <<pc, op, fr, wr, lg, ret, log, replica_lag, failures, cache, dbver,
          inuse, now, last_lag_check, last_flush, runs, sel>>

(***************************************************************************)
(* DatabasePool                                                            *)
(***************************************************************************)
NumReplicas(lagv) == Cardinality(DOMAIN lagv)

\* self._replica_lag = [0] * len(self.replica_pools)
InitialLag(n) == [i \in 0 .. n - 1 |-> 0]

\* lag <= max_lag_ms, the test of the healthy_replicas comprehension
IsHealthy(lag, max_lag_ms) == lag <= max_lag_ms

\* healthy_replicas from index i on: the pairs <<i, lag>> in index order
RECURSIVE HealthyFrom(_, _, _)
HealthyFrom(lagv, max_lag_ms, i) ==
    IF i >= NumReplicas(lagv) THEN <<>>
    ELSE (IF IsHealthy(lagv[i], max_lag_ms) THEN << <<i, lagv[i]>> >> ELSE <<>>)
         \o HealthyFrom(lagv, max_lag_ms, i + 1)

HealthyReplicas(lagv, max_lag_ms) == HealthyFrom(lagv, max_lag_ms, 0)

\* the comparison with <= in place of <: the last of equal items wins
BetterOrEqual(item, best) == item[2] <= best[2]

\* the comparison min() makes: a later item replaces the best one only if its
\* key is strictly smaller
Better(item, best) == item[2] < best[2]

\* min(healthy_replicas, key=lambda x: x[1]), scanning the list from item k
RECURSIVE MinScan(_, _, _)
MinScan(list, k, best) ==
    IF k > Len(list) THEN best
    ELSE MinScan(list, k + 1, IF Better(list[k], best) THEN list[k] ELSE best)

MinByLag(list) == MinScan(list, 2, list[1])

\* get_replica_conn without the acquisition: (source, replica_index, lag_ms)
SelectReplica(lagv, max_lag_ms) ==
    LET healthy == HealthyReplicas(lagv, max_lag_ms) IN
    IF healthy = <<>>
    THEN [source |-> PRIMARY, idx |-> -1, lag_ms |-> 0]
    ELSE LET m == MinByLag(healthy) IN
         [source |-> REPLICA, idx |-> m[1], lag_ms |-> m[2]]

\* the connection get_replica_conn asks a pool for, given the selection
SelectedConn(s, t, k) ==
    IF s.source = PRIMARY THEN PrimaryConn(t, k) ELSE ReplicaConn(s.idx, t, k)

\* pool.putconn(conn): the connection is no longer checked out
PutConn(used, conn) == used \ {conn}

\* pool.getconn() that succeeds: the connection is checked out
GetConn(used, conn) == used \cup {conn}

\* the name of a pool: the primary pool, or replica_pools[idx]
PoolName(role, idx) ==
    IF role = PRIMARY THEN "primary" ELSE "replica" \o ToString(idx)

\* the pool a connection was taken from
HomePool(conn) == PoolName(conn.role, conn.idx)

(***************************************************************************)
(* State after construction                                                *)
(***************************************************************************)
NoFrame ==
    [tenant_id |-> None, consistency |-> "", cache_key |-> None,
     conn |-> NoConn, source |-> "none", replica_idx |-> -1, lag_ms |-> 0,
     results |-> NoRows, tmp |-> 0, retv |-> NoRet, nacq |-> 0, entry |-> 0]

NoWrite ==
    [tenant_id |-> None, entity_id |-> None, conn |-> NoConn, retv |-> NoRet,
     flushes |-> 0, events |-> <<>>, csv_lines |-> <<>>]

NoLagCheck ==
    [start |-> 0, primary_conn |-> NoConn, replica_conn |-> NoConn, i |-> 0,
     nacq |-> 0, primary_ts |-> 0, retv |-> NoRet]

NoSel ==
    [called |-> FALSE, max_lag_ms |-> 0, conn |-> NoConn,
     result |-> [source |-> "none", idx |-> -1, lag_ms |-> 0]]

\* a state with no call under way, the lag vector being lagv and the clock
\* reading t0
ConstructedWith(lagv, t0) ==
    /\ pc = [t \in Threads |-> "idle"]
    /\ op = [t \in Threads |-> ""]
    /\ fr = [t \in Threads |-> NoFrame]
    /\ wr = [t \in Threads |-> NoWrite]
    /\ lg = [t \in Threads |-> NoLagCheck]
    /\ ret = [t \in Threads |-> NoRet]
    /\ log = [t \in Threads |-> <<>>]
    /\ replica_lag = lagv
    /\ failures = 0
    /\ cache = [k \in Keys |-> None]
    /\ dbver = 0
    /\ inuse = {}
    /\ now = t0
    /\ last_lag_check = 0
    /\ last_flush = t0
    /\ runs = <<>>
    /\ sel = NoSel

\* the state right after DatabasePool, QueryRouter and WriteOptimizer are
\* constructed over n replica hosts, with the clock reading t0
Constructed(n, t0) == ConstructedWith(InitialLag(n), t0)

(***************************************************************************)
(* QueryRouter.execute_query                                               *)
(***************************************************************************)
\* cache_key and consistency == ConsistencyLevel.EVENTUAL (lines 215 and 256)
CacheRequested(f) == ~IsNone(f.cache_key) /\ f.consistency = EVENTUAL

\* the routing with the analytics branch sent through get_replica_conn, as
\* if the code tested for STRONG only
RouteAnalyticsToReplica(consistency, lagv) ==
    IF consistency = STRONG
    THEN [source |-> PRIMARY, idx |-> -1, lag_ms |-> 0]
    ELSE SelectReplica(lagv, MaxLagMs)

\* the backend of lines 225-242: (source, replica_idx, lag_ms)
Route(consistency, lagv) ==
    IF consistency = STRONG
    THEN [source |-> PRIMARY, idx |-> -1, lag_ms |-> 0]
    ELSE IF consistency = EVENTUAL
    THEN SelectReplica(lagv, MaxLagMs)
    ELSE [source |-> PRIMARY, idx |-> -1, lag_ms |-> 0]

\* the release rule without its replica branch: only a primary connection
\* finds a pool to go back to
ReleaseTargetPrimaryOnly(source, replica_idx) ==
    IF source = PRIMARY THEN Some(PoolName(PRIMARY, -1)) ELSE None

\* the pool the release code of lines 273-276 and 304-307 puts conn into:
\* the primary pool, replica_pools[replica_idx], or none
ReleaseTarget(source, replica_idx) ==
    IF source = PRIMARY THEN Some(PoolName(PRIMARY, -1))
    ELSE IF replica_idx >= 0 THEN Some(PoolName(REPLICA, replica_idx))
    ELSE None

\* the test of line 270 written with > in place of >=
BreakerOpenStrict(count) == count > Threshold

\* the test of line 270 written with == in place of >=
BreakerOpenOnce(count) == count = Threshold

\* self._circuit_breaker_failures >= self._circuit_breaker_threshold
BreakerOpen(count) == count >= Threshold

\* the value the success paths store in the counter (lines 253 and 291)
ResetValue == 0

\* the check of line 208 left out: no tenant is ever found missing
TenantNeverMissing(tenant_id) == FALSE

\* if tenant_id is None (line 208)
TenantMissing(tenant_id) == IsNone(tenant_id)

\* the lines 208-213, and the entry into the call
ExecuteQueryEnter(t, tenant_id, consistency, cache_key) ==
    /\ pc[t] = "idle"
    /\ op' = [op EXCEPT ![t] = "execute_query"]
    /\ fr' = [fr EXCEPT ![t] = [NoFrame EXCEPT !.tenant_id = tenant_id,
                                               !.consistency = consistency,
                                               !.cache_key = cache_key,
                                               !.entry = failures]]
    /\ log' = [log EXCEPT ![t] = <<>>]
    /\ IF TenantMissing(tenant_id)
       THEN /\ ret' = [ret EXCEPT ![t] = RetErr("ValueError")]
            /\ pc' = pc
       ELSE /\ ret' = [ret EXCEPT ![t] = NoRet]
            /\ pc' = [pc EXCEPT ![t] = "eq_cache"]
    /\ UNCHANGED <<wr, lg, replica_lag, failures, cache, dbver, inuse, now,
                   last_lag_check, last_flush, runs, sel>>

\* the cache probe with a hit that also clears the failure counter
EqCacheProbeResets(t) ==
    /\ pc[t] = "eq_cache"
    /\ LET f == fr[t] IN
       IF CacheRequested(f)
       THEN \E answer \in {"ok", "error"} :
              LET cached == IF answer = "ok" THEN cache[Val(f.cache_key)] ELSE None IN
              /\ log' = [log EXCEPT ![t] = Append(@, Ev(CacheEvent("get", answer), NoConn, Val(f.cache_key)))]
              /\ IF ~IsNone(cached)
                 THEN /\ ret' = [ret EXCEPT ![t] =
                                   RetRows(Val(cached), QueryMetadata(REDIS, 0, f.consistency))]
                      /\ pc' = [pc EXCEPT ![t] = "idle"]
                      /\ failures' = 0
                 ELSE /\ ret' = ret
                      /\ pc' = [pc EXCEPT ![t] = "eq_route"]
                      /\ failures' = failures
       ELSE /\ pc' = [pc EXCEPT ![t] = "eq_route"]
            /\ UNCHANGED <<ret, log, failures>>
    /\ UNCHANGED <<op, fr, wr, lg, replica_lag, cache, dbver, inuse,
                   now, last_lag_check, last_flush, runs, sel>>

\* lines 214-223 with _get_from_cache (309-323): a cache error is a miss
EqCacheProbe(t) ==
    /\ pc[t] = "eq_cache"
    /\ LET f == fr[t] IN
       IF CacheRequested(f)
       THEN \E answer \in {"ok", "error"} :
              LET cached == IF answer = "ok" THEN cache[Val(f.cache_key)] ELSE None IN
              /\ log' = [log EXCEPT ![t] = Append(@, Ev(CacheEvent("get", answer), NoConn, Val(f.cache_key)))]
              /\ IF ~IsNone(cached)
                 THEN /\ ret' = [ret EXCEPT ![t] =
                                   RetRows(Val(cached), QueryMetadata(REDIS, 0, f.consistency))]
                      /\ pc' = [pc EXCEPT ![t] = "idle"]
                 ELSE /\ ret' = ret
                      /\ pc' = [pc EXCEPT ![t] = "eq_route"]
       ELSE /\ pc' = [pc EXCEPT ![t] = "eq_route"]
            /\ UNCHANGED <<ret, log>>
    /\ UNCHANGED <<op, fr, wr, lg, replica_lag, failures, cache, dbver, inuse,
                   now, last_lag_check, last_flush, runs, sel>>

\* lines 225-242: the acquisition, made before the try block is entered, so
\* that a pool that raises ends the call at once
EqRoute(t) ==
    /\ pc[t] = "eq_route"
    /\ LET f == fr[t]
           s == Route(f.consistency, replica_lag)
           conn == SelectedConn(s, t, f.nacq + 1) IN
       \E ok \in BOOLEAN :
         IF ok
         THEN /\ inuse' = GetConn(inuse, conn)
              /\ fr' = [fr EXCEPT ![t] = [f EXCEPT !.conn = conn, !.source = s.source,
                                                   !.replica_idx = s.idx,
                                                   !.lag_ms = s.lag_ms,
                                                   !.nacq = f.nacq + 1]]
              /\ log' = [log EXCEPT ![t] = Append(@, Ev("getconn", conn, HomePool(conn)))]
              /\ pc' = [pc EXCEPT ![t] = "eq_bind"]
              /\ ret' = ret
         ELSE /\ log' = [log EXCEPT ![t] = Append(@, Ev("getconn_failed", NoConn, HomePool(conn)))]
              /\ ret' = [ret EXCEPT ![t] = RetErr("PoolError")]
              /\ pc' = [pc EXCEPT ![t] = "idle"]
              /\ UNCHANGED <<fr, inuse>>
    /\ UNCHANGED <<op, wr, lg, replica_lag, failures, cache, dbver, now,
                   last_lag_check, last_flush, runs, sel>>

\* a statement on the connection of the call: it runs and the call moves to
\* `next`, or it fails and the call moves to `failed`
Statement(t, what, next, failed, counted) ==
    LET f == fr[t] IN
    \E ok \in BOOLEAN :
      IF ok
      THEN /\ log' = [log EXCEPT ![t] = Append(@, Ev("stmt", f.conn, what))]
           /\ pc' = [pc EXCEPT ![t] = next]
      ELSE /\ counted => failures < MaxFailures
           /\ log' = [log EXCEPT ![t] = Append(@, Ev("stmt_failed", f.conn, what))]
           /\ pc' = [pc EXCEPT ![t] = failed]

\* lines 245-247: SET LOCAL app.current_tenant_id
EqBind(t) ==
    /\ pc[t] = "eq_bind"
    /\ Statement(t, "set_tenant", "eq_query", "eq_except", TRUE)
    /\ UNCHANGED <<op, fr, wr, lg, ret, replica_lag, failures, cache, dbver,
                   inuse, now, last_lag_check, last_flush, runs, sel>>

\* lines 249-250: the query and fetchall; the rows are those committed
EqQuery(t) ==
    /\ pc[t] = "eq_query"
    /\ Statement(t, "query", "eq_reset", "eq_except", TRUE)
    /\ fr' = [fr EXCEPT ![t].results = IF pc'[t] = "eq_reset" THEN Rows(dbver) ELSE @]
    /\ UNCHANGED <<op, wr, lg, ret, replica_lag, failures, cache, dbver,
                   inuse, now, last_lag_check, last_flush, runs, sel>>

\* line 253: self._circuit_breaker_failures = 0
EqReset(t) ==
    /\ pc[t] = "eq_reset"
    /\ failures' = ResetValue
    /\ pc' = [pc EXCEPT ![t] = "eq_cache_set"]
    /\ UNCHANGED <<op, fr, wr, lg, ret, log, replica_lag, cache, dbver, inuse,
                   now, last_lag_check, last_flush, runs, sel>>

\* lines 255-266 with _set_to_cache (325-330): a cache error is swallowed,
\* whether or not the server applied the command
EqCacheSet(t) ==
    /\ pc[t] = "eq_cache_set"
    /\ LET f == fr[t] IN
       /\ IF CacheRequested(f)
          THEN \E answer \in {"ok", "error", "error_applied"} :
                 /\ cache' = IF answer = "error" THEN cache
                             ELSE [cache EXCEPT ![Val(f.cache_key)] = Some(f.results)]
                 /\ log' = [log EXCEPT ![t] = Append(@, Ev(CacheEvent("setex", answer), NoConn, Val(f.cache_key)))]
          ELSE UNCHANGED <<cache, log>>
       /\ fr' = [fr EXCEPT ![t].retv =
                   RetRows(f.results, QueryMetadata(f.source, f.lag_ms, f.consistency))]
    /\ pc' = [pc EXCEPT ![t] = "eq_finally"]
    /\ UNCHANGED <<op, wr, lg, ret, replica_lag, failures, dbver, inuse, now,
                   last_lag_check, last_flush, runs, sel>>

\* line 269, the read of self._circuit_breaker_failures += 1
EqExceptRead(t) ==
    /\ pc[t] = "eq_except"
    /\ fr' = [fr EXCEPT ![t].tmp = failures]
    /\ pc' = [pc EXCEPT ![t] = "eq_except_write"]
    /\ UNCHANGED <<op, wr, lg, ret, log, replica_lag, failures, cache, dbver,
                   inuse, now, last_lag_check, last_flush, runs, sel>>

\* line 269, the write of self._circuit_breaker_failures += 1
EqExceptWrite(t) ==
    /\ pc[t] = "eq_except_write"
    /\ failures' = fr[t].tmp + 1
    /\ pc' = [pc EXCEPT ![t] = "eq_except_test"]
    /\ UNCHANGED <<op, fr, wr, lg, ret, log, replica_lag, cache, dbver, inuse,
                   now, last_lag_check, last_flush, runs, sel>>

\* lines 270 and 300-301: the fallback is taken, or the error is raised again
EqExceptTest(t) ==
    /\ pc[t] = "eq_except_test"
    /\ IF BreakerOpen(failures)
       THEN /\ pc' = [pc EXCEPT ![t] = "eq_fb_release"]
            /\ fr' = fr
       ELSE /\ pc' = [pc EXCEPT ![t] = "eq_finally"]
            /\ fr' = [fr EXCEPT ![t].retv = RetErr("QueryFailed")]
    /\ UNCHANGED <<op, wr, lg, ret, log, replica_lag, failures, cache, dbver,
                   inuse, now, last_lag_check, last_flush, runs, sel>>

\* the release of conn by the rule of lines 273-276 and 304-307
Release(t) ==
    LET f == fr[t]
        target == ReleaseTarget(f.source, f.replica_idx) IN
    IF IsNone(target)
    THEN UNCHANGED <<inuse, log>>
    ELSE /\ inuse' = PutConn(inuse, f.conn)
         /\ log' = [log EXCEPT ![t] = Append(@, Ev("putconn", f.conn, Val(target)))]

\* lines 271-276: the original connection goes back first
EqFbRelease(t) ==
    /\ pc[t] = "eq_fb_release"
    /\ Release(t)
    /\ pc' = [pc EXCEPT ![t] = "eq_fb_acquire"]
    /\ UNCHANGED <<op, fr, wr, lg, ret, replica_lag, failures, cache, dbver,
                   now, last_lag_check, last_flush, runs, sel>>

\* lines 279-281: conn, source and replica_idx are assigned only when
\* get_primary_conn returns
EqFbAcquire(t) ==
    /\ pc[t] = "eq_fb_acquire"
    /\ LET f == fr[t]
           conn == PrimaryConn(t, f.nacq + 1) IN
       \E ok \in BOOLEAN :
         IF ok
         THEN /\ inuse' = GetConn(inuse, conn)
              /\ fr' = [fr EXCEPT ![t] = [f EXCEPT !.conn = conn, !.source = PRIMARY,
                                                   !.replica_idx = -1,
                                                   !.nacq = f.nacq + 1]]
              /\ log' = [log EXCEPT ![t] = Append(@, Ev("getconn", conn, HomePool(conn)))]
              /\ pc' = [pc EXCEPT ![t] = "eq_fb_bind"]
         ELSE /\ log' = [log EXCEPT ![t] = Append(@, Ev("getconn_failed", NoConn, HomePool(conn)))]
              /\ fr' = [fr EXCEPT ![t].retv = RetErr("PoolError")]
              /\ pc' = [pc EXCEPT ![t] = "eq_finally"]
              /\ inuse' = inuse
    /\ UNCHANGED <<op, wr, lg, ret, replica_lag, failures, cache, dbver, now,
                   last_lag_check, last_flush, runs, sel>>

\* the fallback without its SET LOCAL: the retry goes straight to the query
EqFbBindSkipped(t) ==
    /\ pc[t] = "eq_fb_bind"
    /\ pc' = [pc EXCEPT ![t] = "eq_fb_query"]
    /\ UNCHANGED <<op, fr, wr, lg, ret, log, replica_lag, failures, cache, dbver,
                   inuse, now, last_lag_check, last_flush, runs, sel>>

\* lines 283-285: SET LOCAL app.current_tenant_id on the fallback connection
EqFbBind(t) ==
    /\ pc[t] = "eq_fb_bind"
    /\ Statement(t, "set_tenant", "eq_fb_query", "eq_finally", FALSE)
    /\ fr' = [fr EXCEPT ![t].retv = IF pc'[t] = "eq_finally" THEN RetErr("QueryFailed") ELSE @]
    /\ UNCHANGED <<op, wr, lg, ret, replica_lag, failures, cache, dbver,
                   inuse, now, last_lag_check, last_flush, runs, sel>>

\* lines 287-288: the retried query
EqFbQuery(t) ==
    /\ pc[t] = "eq_fb_query"
    /\ Statement(t, "query", "eq_fb_reset", "eq_finally", FALSE)
    /\ fr' = [fr EXCEPT ![t] =
                IF pc'[t] = "eq_finally"
                THEN [@ EXCEPT !.retv = RetErr("QueryFailed")]
                ELSE [@ EXCEPT !.results = Rows(dbver)]]
    /\ UNCHANGED <<op, wr, lg, ret, replica_lag, failures, cache, dbver,
                   inuse, now, last_lag_check, last_flush, runs, sel>>

\* the fallback's success path without the reset of line 291
EqFbResetForgotten(t) ==
    /\ pc[t] = "eq_fb_reset"
    /\ fr' = [fr EXCEPT ![t].retv =
                RetRows(fr[t].results, QueryMetadata(PRIMARY, 0, STRONG))]
    /\ pc' = [pc EXCEPT ![t] = "eq_finally"]
    /\ UNCHANGED <<op, wr, lg, ret, log, replica_lag, failures, cache, dbver,
                   inuse, now, last_lag_check, last_flush, runs, sel>>

\* lines 290-299: the counter is reset and the rows are returned as strong
EqFbReset(t) ==
    /\ pc[t] = "eq_fb_reset"
    /\ failures' = ResetValue
    /\ fr' = [fr EXCEPT ![t].retv =
                RetRows(fr[t].results, QueryMetadata(PRIMARY, 0, STRONG))]
    /\ pc' = [pc EXCEPT ![t] = "eq_finally"]
    /\ UNCHANGED <<op, wr, lg, ret, log, replica_lag, cache, dbver, inuse,
                   now, last_lag_check, last_flush, runs, sel>>

\* lines 302-307: the release of whatever conn and source now name, then the
\* return or the raise that was pending
EqFinally(t) ==
    /\ pc[t] = "eq_finally"
    /\ Release(t)
    /\ ret' = [ret EXCEPT ![t] = fr[t].retv]
    /\ pc' = [pc EXCEPT ![t] = "idle"]
    /\ UNCHANGED <<op, fr, wr, lg, replica_lag, failures, cache, dbver, now,
                   last_lag_check, last_flush, runs, sel>>

\* one step of an execute_query call of thread t
ExecuteQueryStep(t) ==
    \/ EqCacheProbe(t)
    \/ EqRoute(t)
    \/ EqBind(t)
    \/ EqQuery(t)
    \/ EqReset(t)
    \/ EqCacheSet(t)
    \/ EqExceptRead(t)
    \/ EqExceptWrite(t)
    \/ EqExceptTest(t)
    \/ EqFbRelease(t)
    \/ EqFbAcquire(t)
    \/ EqFbBind(t)
    \/ EqFbQuery(t)
    \/ EqFbReset(t)
    \/ EqFinally(t)

(***************************************************************************)
(* WriteOptimizer.upsert_hot_attributes                                    *)
(***************************************************************************)
\* line 432: the acquisition, made before the try block is entered
UpsertEnter(t, tenant_id, entity_id) ==
    /\ pc[t] = "idle"
    /\ dbver < MaxVer
    /\ op' = [op EXCEPT ![t] = "upsert_hot_attributes"]
    /\ LET conn == PrimaryConn(t, 1) IN
       \E ok \in BOOLEAN :
         IF ok
         THEN /\ inuse' = GetConn(inuse, conn)
              /\ wr' = [wr EXCEPT ![t] = [NoWrite EXCEPT !.tenant_id = Some(tenant_id),
                                                         !.entity_id = Some(entity_id),
                                                         !.conn = conn]]
              /\ log' = [log EXCEPT ![t] = <<Ev("getconn", conn, HomePool(conn))>>]
              /\ ret' = [ret EXCEPT ![t] = NoRet]
              /\ pc' = [pc EXCEPT ![t] = "up_exec"]
         ELSE /\ inuse' = inuse
              /\ wr' = [wr EXCEPT ![t] = NoWrite]
              /\ log' = [log EXCEPT ![t] = <<Ev("getconn_failed", NoConn, HomePool(conn))>>]
              /\ ret' = [ret EXCEPT ![t] = RetErr("PoolError")]
              /\ pc' = pc
    /\ UNCHANGED <<fr, lg, replica_lag, failures, cache, dbver, now,
                   last_lag_check, last_flush, runs, sel>>

\* a statement of a WriteOptimizer call on its connection
WriteStatement(t, what, next, failed) ==
    \E ok \in BOOLEAN :
      IF ok
      THEN /\ log' = [log EXCEPT ![t] = Append(@, Ev("stmt", wr[t].conn, what))]
           /\ pc' = [pc EXCEPT ![t] = next]
           /\ wr' = wr
      ELSE /\ log' = [log EXCEPT ![t] = Append(@, Ev("stmt_failed", wr[t].conn, what))]
           /\ pc' = [pc EXCEPT ![t] = failed]
           /\ wr' = [wr EXCEPT ![t].retv = RetErr("QueryFailed")]

\* lines 434-439: SELECT upsert_hot_attrs(...)
UpExec(t) ==
    /\ pc[t] = "up_exec"
    /\ WriteStatement(t, "upsert_hot_attrs", "up_commit", "up_finally")
    /\ UNCHANGED <<op, fr, lg, ret, replica_lag, failures, cache, dbver, inuse,
                   now, last_lag_check, last_flush, runs, sel>>

\* line 440: conn.commit() makes the new attributes the committed ones
UpCommit(t) ==
    /\ pc[t] = "up_commit"
    /\ WriteStatement(t, "commit", "up_delete", "up_finally")
    /\ dbver' = IF pc'[t] = "up_delete" THEN dbver + 1 ELSE dbver
    /\ UNCHANGED <<op, fr, lg, ret, replica_lag, failures, cache, inuse, now,
                   last_lag_check, last_flush, runs, sel>>

\* the outcome of redis_client.delete(key) on the cache: deleted, or, when the
\* command raises, either left as it was or deleted all the same
CacheDelete(c, key, answer) ==
    IF answer = "error" THEN c ELSE [c EXCEPT ![key] = None]

\* lines 442-447: the delete, any error of which is passed over
UpDelete(t) ==
    /\ pc[t] = "up_delete"
    /\ LET key == EntityCacheKey(Val(wr[t].tenant_id), Val(wr[t].entity_id)) IN
       \E answer \in {"ok", "error", "error_applied"} :
         /\ cache' = CacheDelete(cache, key, answer)
         /\ log' = [log EXCEPT ![t] = Append(@, Ev(CacheEvent("delete", answer), NoConn, key))]
    /\ wr' = [wr EXCEPT ![t].retv = RetOk]
    /\ pc' = [pc EXCEPT ![t] = "up_finally"]
    /\ UNCHANGED <<op, fr, lg, ret, replica_lag, failures, dbver, inuse, now,
                   last_lag_check, last_flush, runs, sel>>

\* lines 448-449: the connection goes back, then the return or the raise
UpFinally(t) ==
    /\ pc[t] = "up_finally"
    /\ inuse' = PutConn(inuse, wr[t].conn)
    /\ log' = [log EXCEPT ![t] = Append(@, Ev("putconn", wr[t].conn, PoolName(PRIMARY, -1)))]
    /\ ret' = [ret EXCEPT ![t] = wr[t].retv]
    /\ pc' = [pc EXCEPT ![t] = "idle"]
    /\ UNCHANGED <<op, fr, wr, lg, replica_lag, failures, cache, dbver, now,
                   last_lag_check, last_flush, runs, sel>>

\* one step of an upsert_hot_attributes call of thread t
UpsertStep(t) ==
    \/ UpExec(t)
    \/ UpCommit(t)
    \/ UpDelete(t)
    \/ UpFinally(t)

(***************************************************************************)
(* DatabasePool.check_replica_lag                                          *)
(***************************************************************************)
\* one entry of the record of the runs that did work
Run(what, t, at) == [what |-> what, by |-> t, at |-> at]

\* now - self._last_lag_check < self._lag_check_interval (line 131)
Throttled(start, last) == start - last < LagCheckInterval

\* int(primary_ts - replica_ts) (line 161)
LagOf(primary_ts, replica_ts) == primary_ts - replica_ts

\* line 130: now = time.time()
LagCheckEnter(t) ==
    /\ pc[t] = "idle"
    /\ Len(runs) < MaxLog
    /\ op' = [op EXCEPT ![t] = "check_replica_lag"]
    /\ lg' = [lg EXCEPT ![t] = [NoLagCheck EXCEPT !.start = now]]
    /\ log' = [log EXCEPT ![t] = <<>>]
    /\ ret' = [ret EXCEPT ![t] = NoRet]
    /\ pc' = [pc EXCEPT ![t] = "lc_test"]
    /\ UNCHANGED <<fr, wr, replica_lag, failures, cache, dbver, inuse, now,
                   last_lag_check, last_flush, runs, sel>>

\* lines 131-132: the throttle reads self._last_lag_check
LcTest(t) ==
    /\ pc[t] = "lc_test"
    /\ IF Throttled(lg[t].start, last_lag_check)
       THEN /\ ret' = [ret EXCEPT ![t] = RetBool(FALSE)]
            /\ pc' = [pc EXCEPT ![t] = "idle"]
       ELSE /\ ret' = ret
            /\ pc' = [pc EXCEPT ![t] = "lc_stamp"]
    /\ UNCHANGED <<op, fr, wr, lg, log, replica_lag, failures, cache, dbver,
                   inuse, now, last_lag_check, last_flush, runs, sel>>

\* line 134: self._last_lag_check = now
LcStamp(t) ==
    /\ pc[t] = "lc_stamp"
    /\ last_lag_check' = lg[t].start
    /\ pc' = [pc EXCEPT ![t] = "lc_primary"]
    /\ UNCHANGED <<op, fr, wr, lg, ret, log, replica_lag, failures, cache,
                   dbver, inuse, now, last_flush, runs, sel>>

\* line 136: the primary connection, acquired before the try block
LcPrimary(t) ==
    /\ pc[t] = "lc_primary"
    /\ LET conn == PrimaryConn(t, 1) IN
       \E ok \in BOOLEAN :
         IF ok
         THEN /\ inuse' = GetConn(inuse, conn)
              /\ lg' = [lg EXCEPT ![t].primary_conn = conn, ![t].nacq = 1]
              /\ log' = [log EXCEPT ![t] = Append(@, Ev("getconn", conn, HomePool(conn)))]
              /\ runs' = Append(runs, Run("check_replica_lag", t, lg[t].start))
              /\ pc' = [pc EXCEPT ![t] = "lc_clock"]
              /\ ret' = ret
         ELSE /\ log' = [log EXCEPT ![t] = Append(@, Ev("getconn_failed", NoConn, HomePool(conn)))]
              /\ ret' = [ret EXCEPT ![t] = RetErr("PoolError")]
              /\ pc' = [pc EXCEPT ![t] = "idle"]
              /\ UNCHANGED <<inuse, lg, runs>>
    /\ UNCHANGED <<op, fr, wr, replica_lag, failures, cache, dbver, now,
                   last_lag_check, last_flush, sel>>

\* lines 138-142: the clock of the primary, in milliseconds; the loop of
\* line 144 is entered if there is a replica
LcClock(t) ==
    /\ pc[t] = "lc_clock"
    /\ \E ok \in BOOLEAN :
         IF ok
         THEN /\ log' = [log EXCEPT ![t] = Append(@, Ev("stmt", lg[t].primary_conn, "clock"))]
              /\ lg' = [lg EXCEPT ![t].primary_ts = now * 1000, ![t].i = 0]
              /\ pc' = [pc EXCEPT ![t] =
                          IF NumReplicas(replica_lag) > 0 THEN "lc_replica" ELSE "lc_finally"]
         ELSE /\ log' = [log EXCEPT ![t] = Append(@, Ev("stmt_failed", lg[t].primary_conn, "clock"))]
              /\ lg' = [lg EXCEPT ![t].retv = RetErr("QueryFailed")]
              /\ pc' = [pc EXCEPT ![t] = "lc_finally"]
    /\ UNCHANGED <<op, fr, wr, ret, replica_lag, failures, cache, dbver, inuse,
                   now, last_lag_check, last_flush, runs, sel>>

\* the loop left after its first replica, whatever came of it
NextReplicaStops(t) == "lc_finally"

\* the loop of line 144 moves to the next replica, or is left
NextReplica(t) == IF lg[t].i + 1 < NumReplicas(replica_lag) THEN "lc_replica" ELSE "lc_finally"

\* lines 145-147 and 162-168: replica_pool.getconn(); if it raises, the slot
\* is marked unavailable and there is nothing to put back
LcReplicaGet(t) ==
    /\ pc[t] = "lc_replica"
    /\ LET i == lg[t].i
           conn == ReplicaConn(i, t, lg[t].nacq + 1) IN
       \E ok \in BOOLEAN :
         IF ok
         THEN /\ inuse' = GetConn(inuse, conn)
              /\ lg' = [lg EXCEPT ![t].replica_conn = conn, ![t].nacq = @ + 1]
              /\ log' = [log EXCEPT ![t] = Append(@, Ev("getconn", conn, HomePool(conn)))]
              /\ pc' = [pc EXCEPT ![t] = "lc_heartbeat"]
              /\ replica_lag' = replica_lag
         ELSE /\ log' = [log EXCEPT ![t] = Append(@, Ev("getconn_failed", NoConn, HomePool(conn)))]
              /\ replica_lag' = [replica_lag EXCEPT ![i] = Unavailable]
              /\ lg' = [lg EXCEPT ![t].replica_conn = NoConn, ![t].i = i + 1]
              /\ pc' = [pc EXCEPT ![t] = NextReplica(t)]
              /\ inuse' = inuse
    /\ UNCHANGED <<op, fr, wr, ret, failures, cache, dbver, now, last_lag_check,
                   last_flush, runs, sel>>

\* how far behind the primary clock the last heartbeat row of a replica is
\* (ms); a negative age is a heartbeat stamped ahead of the primary clock
HeartbeatAges == {-50, 100}

\* lines 148-164: the heartbeat read; a row sets the slot, no row leaves it,
\* a failure marks it unavailable
LcHeartbeat(t) ==
    /\ pc[t] = "lc_heartbeat"
    /\ LET i == lg[t].i IN
       \/ \E age \in HeartbeatAges :
            /\ replica_lag' = [replica_lag EXCEPT ![i] =
                                 LagOf(lg[t].primary_ts, lg[t].primary_ts - age)]
            /\ log' = [log EXCEPT ![t] = Append(@, Ev("stmt", lg[t].replica_conn, "heartbeat"))]
       \/ /\ replica_lag' = replica_lag
          /\ log' = [log EXCEPT ![t] = Append(@, Ev("stmt", lg[t].replica_conn, "heartbeat_none"))]
       \/ /\ replica_lag' = [replica_lag EXCEPT ![i] = Unavailable]
          /\ log' = [log EXCEPT ![t] = Append(@, Ev("stmt_failed", lg[t].replica_conn, "heartbeat"))]
    /\ pc' = [pc EXCEPT ![t] = "lc_replica_put"]
    /\ UNCHANGED <<op, fr, wr, lg, ret, failures, cache, dbver, inuse, now,
                   last_lag_check, last_flush, runs, sel>>

\* lines 165-168: the replica connection goes back to its pool
LcReplicaPut(t) ==
    /\ pc[t] = "lc_replica_put"
    /\ inuse' = PutConn(inuse, lg[t].replica_conn)
    /\ log' = [log EXCEPT ![t] =
                 Append(@, Ev("putconn", lg[t].replica_conn, PoolName(REPLICA, lg[t].i)))]
    /\ lg' = [lg EXCEPT ![t].i = @ + 1]
    /\ pc' = [pc EXCEPT ![t] = NextReplica(t)]
    /\ UNCHANGED <<op, fr, wr, ret, replica_lag, failures, cache, dbver, now,
                   last_lag_check, last_flush, runs, sel>>

\* lines 169-172: the primary connection goes back; True, or the error
LcFinally(t) ==
    /\ pc[t] = "lc_finally"
    /\ inuse' = PutConn(inuse, lg[t].primary_conn)
    /\ log' = [log EXCEPT ![t] =
                 Append(@, Ev("putconn", lg[t].primary_conn, PoolName(PRIMARY, -1)))]
    /\ ret' = [ret EXCEPT ![t] =
                 IF lg[t].retv.kind = "error" THEN lg[t].retv ELSE RetBool(TRUE)]
    /\ pc' = [pc EXCEPT ![t] = "idle"]
    /\ UNCHANGED <<op, fr, wr, lg, replica_lag, failures, cache, dbver, now,
                   last_lag_check, last_flush, runs, sel>>

\* one step of a check_replica_lag call of thread t
LagCheckStep(t) ==
    \/ LcTest(t)
    \/ LcStamp(t)
    \/ LcPrimary(t)
    \/ LcClock(t)
    \/ LcReplicaGet(t)
    \/ LcHeartbeat(t)
    \/ LcReplicaPut(t)
    \/ LcFinally(t)

\* the steps the clock of the lag check advances by (seconds)
ClockStepsS == {10}

\* time passes
TickS ==
    /\ \E d \in ClockStepsS : now + d <= MaxTimeS /\ now' = now + d
    /\ UNCHANGED <<pc, op, fr, wr, lg, ret, log, replica_lag, failures, cache,
                   dbver, inuse, last_lag_check, last_flush, runs, sel>>

\* time.time() is far above the interval when the pool is constructed
InitLag == Constructed(ConfiguredReplicas, LagCheckInterval)

\* check_replica_lag called by two threads
NextLag ==
    \/ \E t \in Threads : LagCheckEnter(t)
    \/ \E t \in Threads : LagCheckStep(t)
    \/ TickS

SpecLag == InitLag /\ [][NextLag]_vars

\* check_replica_lag called again and again by one thread
NextLagSeq ==
    \/ LagCheckEnter("t1")
    \/ LagCheckStep("t1")
    \/ TickS

SpecLagSeq == InitLag /\ [][NextLagSeq]_vars

(***************************************************************************)
(* WriteOptimizer.ingest_telemetry                                         *)
(***************************************************************************)
\* time.time() - self._last_flush > self._flush_interval (line 414)
FlushDue(t_now, last) == t_now - last > FlushIntervalMs

\* line 374: the acquisition, made before the try block is entered
IngestEnter(t) ==
    /\ pc[t] = "idle"
    /\ Len(runs) < MaxLog
    /\ op' = [op EXCEPT ![t] = "ingest_telemetry"]
    /\ LET conn == PrimaryConn(t, 1) IN
       \E ok \in BOOLEAN :
         IF ok
         THEN /\ inuse' = GetConn(inuse, conn)
              /\ wr' = [wr EXCEPT ![t] = [NoWrite EXCEPT !.conn = conn]]
              /\ log' = [log EXCEPT ![t] = <<Ev("getconn", conn, HomePool(conn))>>]
              /\ ret' = [ret EXCEPT ![t] = NoRet]
              /\ pc' = [pc EXCEPT ![t] = "ig_copy"]
         ELSE /\ inuse' = inuse
              /\ wr' = [wr EXCEPT ![t] = NoWrite]
              /\ log' = [log EXCEPT ![t] = <<Ev("getconn_failed", NoConn, HomePool(conn))>>]
              /\ ret' = [ret EXCEPT ![t] = RetErr("PoolError")]
              /\ pc' = pc
    /\ UNCHANGED <<fr, lg, replica_lag, failures, cache, dbver, now,
                   last_lag_check, last_flush, runs, sel>>

\* lines 377-410: the rows are copied into entity_values_ingest
IgCopy(t) ==
    /\ pc[t] = "ig_copy"
    /\ WriteStatement(t, "copy_from", "ig_flush_test", "ig_finally")
    /\ UNCHANGED <<op, fr, lg, ret, replica_lag, failures, cache, dbver, inuse,
                   now, last_lag_check, last_flush, runs, sel>>

\* line 414: the clock and self._last_flush are read
IgFlushTest(t) ==
    /\ pc[t] = "ig_flush_test"
    /\ pc' = [pc EXCEPT ![t] = IF FlushDue(now, last_flush) THEN "ig_flush" ELSE "ig_commit"]
    /\ UNCHANGED <<op, fr, wr, lg, ret, log, replica_lag, failures, cache,
                   dbver, inuse, now, last_lag_check, last_flush, runs, sel>>

\* line 415: SELECT stage_flush(50000)
IgFlush(t) ==
    /\ pc[t] = "ig_flush"
    /\ \E ok \in BOOLEAN :
         IF ok
         THEN /\ log' = [log EXCEPT ![t] = Append(@, Ev("stmt", wr[t].conn, "stage_flush"))]
              /\ runs' = Append(runs, Run("stage_flush", t, now))
              /\ wr' = [wr EXCEPT ![t].flushes = @ + 1]
              /\ pc' = [pc EXCEPT ![t] = "ig_stamp"]
         ELSE /\ log' = [log EXCEPT ![t] = Append(@, Ev("stmt_failed", wr[t].conn, "stage_flush"))]
              /\ runs' = Append(runs, Run("stage_flush_failed", t, now))
              /\ wr' = [wr EXCEPT ![t].retv = RetErr("QueryFailed")]
              /\ pc' = [pc EXCEPT ![t] = "ig_finally"]
    /\ UNCHANGED <<op, fr, lg, ret, replica_lag, failures, cache, dbver, inuse,
                   now, last_lag_check, last_flush, sel>>

\* line 416: self._last_flush = time.time()
IgStamp(t) ==
    /\ pc[t] = "ig_stamp"
    /\ last_flush' = now
    /\ pc' = [pc EXCEPT ![t] = "ig_commit"]
    /\ UNCHANGED <<op, fr, wr, lg, ret, log, replica_lag, failures, cache,
                   dbver, inuse, now, last_lag_check, runs, sel>>

\* line 418: conn.commit()
IgCommit(t) ==
    /\ pc[t] = "ig_commit"
    /\ WriteStatement(t, "commit", "ig_finally", "ig_finally")
    /\ UNCHANGED <<op, fr, lg, ret, replica_lag, failures, cache, dbver, inuse,
                   now, last_lag_check, last_flush, runs, sel>>

\* lines 419-420: the connection goes back, then the return or the raise
IgFinally(t) ==
    /\ pc[t] = "ig_finally"
    /\ inuse' = PutConn(inuse, wr[t].conn)
    /\ log' = [log EXCEPT ![t] = Append(@, Ev("putconn", wr[t].conn, PoolName(PRIMARY, -1)))]
    /\ ret' = [ret EXCEPT ![t] = IF wr[t].retv.kind = "error" THEN wr[t].retv ELSE RetOk]
    /\ pc' = [pc EXCEPT ![t] = "idle"]
    /\ UNCHANGED <<op, fr, wr, lg, replica_lag, failures, cache, dbver, now,
                   last_lag_check, last_flush, runs, sel>>

\* one step of an ingest_telemetry call of thread t
IngestStep(t) ==
    \/ IgCopy(t)
    \/ IgFlushTest(t)
    \/ IgFlush(t)
    \/ IgStamp(t)
    \/ IgCommit(t)
    \/ IgFinally(t)

\* the steps the clock of the ingest path advances by (milliseconds)
ClockStepsMs == {50}

\* time passes
TickMs ==
    /\ \E d \in ClockStepsMs : now + d <= MaxTimeMs /\ now' = now + d
    /\ UNCHANGED <<pc, op, fr, wr, lg, ret, log, replica_lag, failures, cache,
                   dbver, inuse, last_lag_check, last_flush, runs, sel>>

\* self._last_flush = time.time() at construction
InitIngest == Constructed(ConfiguredReplicas, 0)

\* ingest_telemetry called by two threads
NextIngest ==
    \/ \E t \in Threads : IngestEnter(t)
    \/ \E t \in Threads : IngestStep(t)
    \/ TickMs

SpecIngest == InitIngest /\ [][NextIngest]_vars

(***************************************************************************)
(* The copy lines of ingest_telemetry.  A string is the sequence of its    *)
(* characters.                                                             *)
(***************************************************************************)
Tab == "\t"
\* the literal "\\N" of line 384: a backslash and the letter N
NullSentinel == <<"\\", "N">>

\* the values of the fields of an event: None, a string, an integer; Absent
\* stands for a key the dict does not have
PyNone == [kind |-> "none", s |-> <<>>, n |-> 0]
PyStr(s) == [kind |-> "str", s |-> s, n |-> 0]
PyInt(n) == [kind |-> "int", s |-> <<>>, n |-> n]
Absent == [kind |-> "absent", s |-> <<>>, n |-> 0]

\* the columns, in the order of lines 387-393 and 401-409
Columns ==
    <<"entity_id", "tenant_id", "attribute_id", "value", "value_int",
      "value_decimal", "ingested_at">>

\* e.get(col): None when the key is absent
Get(e, col) == IF e[col].kind = "absent" THEN PyNone ELSE e[col]

Digit(d) == <<"0", "1", "2", "3", "4", "5", "6", "7", "8", "9">>[d + 1]

\* str(n) of a non-negative integer
RECURSIVE IntStr(_)
IntStr(n) == IF n < 10 THEN <<Digit(n)>> ELSE IntStr(n \div 10) \o <<Digit(n % 10)>>

\* str(val): a string is itself, an integer its decimal digits
Str(val) == IF val.kind = "str" THEN val.s ELSE IntStr(val.n)

\* def fmt(val): "\\N" if val is None or val == "" else str(val)
fmt(val) ==
    IF val.kind = "none" \/ (val.kind = "str" /\ val.s = <<>>)
    THEN NullSentinel
    ELSE Str(val)

\* the f-string of lines 387-393, from column c on
RECURSIVE LineFrom(_, _)
LineFrom(e, c) ==
    fmt(Get(e, Columns[c]))
        \o (IF c = Len(Columns) THEN <<>> ELSE <<Tab>> \o LineFrom(e, c + 1))

\* csv_lines of lines 380-394: one line per event, in order
RECURSIVE CsvLines(_)
CsvLines(events) ==
    IF events = <<>> THEN <<>>
    ELSE <<LineFrom(Head(events), 1)>> \o CsvLines(Tail(events))

\* the events ingest_telemetry is called with here: keys present or absent,
\* None, empty and non-empty strings (one of them with a tab in it), zero
\* and longer integers
Events ==
    [entity_id : {PyInt(42), Absent},
     tenant_id : {PyInt(7)},
     attribute_id : {PyInt(105)},
     value : {PyNone, PyStr(<<>>), PyStr(<<"o", "n">>), PyStr(<<"a", Tab, "b">>)},
     value_int : {PyNone, PyInt(0)},
     value_decimal : {PyNone},
     ingested_at : {PyStr(<<>>), PyStr(<<"t">>)}]

EventLists == UNION {[1 .. n -> Events] : n \in 0 .. MaxEvents}

\* lines 380-394: the lines ingest_telemetry builds from its argument
CsvLinesCall(t, events) ==
    /\ pc[t] = "idle"
    /\ op[t] = ""
    /\ op' = [op EXCEPT ![t] = "csv_lines"]
    /\ wr' = [wr EXCEPT ![t] = [NoWrite EXCEPT !.events = events,
                                               !.csv_lines = CsvLines(events)]]
    /\ UNCHANGED <<pc, fr, lg, ret, log, replica_lag, failures, cache, dbver,
                   inuse, now, last_lag_check, last_flush, runs, sel>>

NextCopy == \E events \in EventLists : CsvLinesCall("t1", events)

SpecCopy == InitIngest /\ [][NextCopy]_vars

(***************************************************************************)
(* The router and the writer, one call at a time                           *)
(***************************************************************************)
\* the lags a heartbeat read yields here: within the bound and above it
LagSamples == {100, 3001}

TenantArgs == {None} \cup {Some(t) : t \in Tenants}
CacheKeyArgs == {None} \cup {Some(k) : k \in Keys}

\* the store check_replica_lag makes into one slot of the lag vector (lines
\* 161 and 164), as a router thread sees it; the run itself is SpecLag's
LagStore(i, v) ==
    /\ i \in DOMAIN replica_lag
    /\ replica_lag' = [replica_lag EXCEPT ![i] = v]
    /\ UNCHANGED <<pc, op, fr, wr, lg, ret, log, failures, cache, dbver, inuse,
                   now, last_lag_check, last_flush, runs, sel>>

\* a call of execute_query by thread t, with any arguments
AnyExecuteQuery(t) ==
    \E tenant_id \in TenantArgs, consistency \in ConsistencyLevel,
       cache_key \in CacheKeyArgs :
       ExecuteQueryEnter(t, tenant_id, consistency, cache_key)

\* a call of upsert_hot_attributes by thread t, with any arguments
AnyUpsert(t) ==
    \E tenant_id \in Tenants, entity_id \in Entities :
       UpsertEnter(t, tenant_id, entity_id)

Init == Constructed(ConfiguredReplicas, 0)

\* execute_query calls one after the other, while the lag vector changes
Next ==
    \/ AnyExecuteQuery("t1")
    \/ ExecuteQueryStep("t1")
    \/ \E i \in 0 .. ConfiguredReplicas - 1, v \in LagSamples :
          LagStore(i, v)

Spec == Init /\ [][Next]_vars

\* execute_query and upsert_hot_attributes calls one after the other
NextWrite ==
    \/ AnyExecuteQuery("t1")
    \/ ExecuteQueryStep("t1")
    \/ AnyUpsert("t1")
    \/ UpsertStep("t1")

SpecWrite == Init /\ [][NextWrite]_vars

(***************************************************************************)
(* A reader and a writer on two threads                                    *)
(***************************************************************************)
\* thread t1 reads the entity through the cache with eventual consistency
\* while thread t2 upserts its hot attributes
NextRace ==
    \/ \E tenant_id \in Tenants, entity_id \in Entities :
          ExecuteQueryEnter("t1", Some(tenant_id), EVENTUAL,
                            Some(EntityCacheKey(tenant_id, entity_id)))
    \/ ExecuteQueryStep("t1")
    \/ AnyUpsert("t2")
    \/ UpsertStep("t2")

SpecRace == Init /\ [][NextRace]_vars

(***************************************************************************)
(* Two execute_query calls on two threads                                  *)
(***************************************************************************)
\* the counts of failures the two calls may find: none, and two short of
\* the threshold
FailuresBefore == {0, Threshold - 2}

\* a router that has counted some failures in earlier calls, no call being
\* under way
InitBreaker ==
    /\ pc = [t \in Threads |-> "idle"]
    /\ op = [t \in Threads |-> ""]
    /\ fr = [t \in Threads |-> NoFrame]
    /\ wr = [t \in Threads |-> NoWrite]
    /\ lg = [t \in Threads |-> NoLagCheck]
    /\ ret = [t \in Threads |-> NoRet]
    /\ log = [t \in Threads |-> <<>>]
    /\ replica_lag = InitialLag(ConfiguredReplicas)
    /\ failures \in FailuresBefore
    /\ cache = [k \in Keys |-> None]
    /\ dbver = 0
    /\ inuse = {}
    /\ now = 0
    /\ last_lag_check = 0
    /\ last_flush = 0
    /\ runs = <<>>
    /\ sel = NoSel

\* the one call thread t makes: a strong read for a tenant
OneExecuteQuery(t) ==
    /\ op[t] = ""
    /\ \E tenant_id \in Tenants : ExecuteQueryEnter(t, Some(tenant_id), STRONG, None)

\* each thread calls execute_query once, the two calls running side by side
NextBreaker ==
    \/ \E t \in Threads : OneExecuteQuery(t)
    \/ \E t \in Threads : ExecuteQueryStep(t)

SpecBreaker == InitBreaker /\ [][NextBreaker]_vars

(***************************************************************************)
(* DatabasePool.get_replica_conn on its own, over any lag vector           *)
(***************************************************************************)
\* the values a slot of the lag vector is drawn from: a heartbeat ahead of
\* the primary clock, the initial value, lags around the bounds, the sentinel
SelLags == {-50, 0, 100, 3000, 3001, Unavailable}

\* the bounds get_replica_conn is called with
SelBounds == {0, 100, 3000}

\* lines 104-121: the selection and the acquisition from the selected pool
GetReplicaConnCall(t, max_lag_ms) ==
    /\ pc[t] = "idle"
    /\ ~sel.called
    /\ op' = [op EXCEPT ![t] = "get_replica_conn"]
    /\ LET s == SelectReplica(replica_lag, max_lag_ms)
           conn == SelectedConn(s, t, 1) IN
       \E ok \in BOOLEAN :
         IF ok
         THEN /\ inuse' = GetConn(inuse, conn)
              /\ sel' = [called |-> TRUE, max_lag_ms |-> max_lag_ms, conn |-> conn,
                         result |-> s]
              /\ log' = [log EXCEPT ![t] = <<Ev("getconn", conn, HomePool(conn))>>]
              /\ ret' = [ret EXCEPT ![t] = RetOk]
         ELSE /\ log' = [log EXCEPT ![t] = <<Ev("getconn_failed", NoConn, HomePool(conn))>>]
              /\ ret' = [ret EXCEPT ![t] = RetErr("PoolError")]
              /\ UNCHANGED <<inuse, sel>>
    /\ UNCHANGED <<pc, fr, wr, lg, replica_lag, failures, cache, dbver, now,
                   last_lag_check, last_flush, runs>>

\* any lag vector over at most MaxReplicas replicas
InitSelect ==
    \E n \in 0 .. MaxReplicas :
        \E lagv \in [0 .. n - 1 -> SelLags] : ConstructedWith(lagv, 0)

NextSelect == \E max_lag_ms \in SelBounds : GetReplicaConnCall("t1", max_lag_ms)

SpecSelect == InitSelect /\ [][NextSelect]_vars

(***************************************************************************)
(* What a finished call left behind                                        *)
(***************************************************************************)
\* thread t has returned from (or raised out of) a call of operation o
Finished(t, o) == pc[t] = "idle" /\ op[t] = o

\* the places of the events of log l of one of the kinds
Places(l, kinds) == {k \in DOMAIN l : l[k].ev \in kinds}

\* the connections log l took or put back
ConnsOf(l) == {l[k].conn : k \in Places(l, {"getconn", "putconn"})}

\* how often log l took connection c, and how often it put it back
Gets(l, c) == Cardinality({k \in Places(l, {"getconn"}) : l[k].conn = c})
Puts(l, c) == Cardinality({k \in Places(l, {"putconn"}) : l[k].conn = c})

\* a statement failed on the connection the call acquired first
OriginalFailed(l) == \E k \in Places(l, {"stmt_failed"}) : l[k].conn.id = 1

\* the acquisitions, made or refused, that follow a failed statement
FallbackAcquires(l) ==
    {k \in Places(l, {"getconn", "getconn_failed"}) :
        \E j \in Places(l, {"stmt_failed"}) : j < k}

\* the runs of the query on the connection acquired second
RetryQueries(l) ==
    {k \in Places(l, {"stmt", "stmt_failed"}) : l[k].arg = "query" /\ l[k].conn.id = 2}

\* the cache commands of log l
CacheCommands(l) ==
    {k \in DOMAIN l : l[k].ev \notin {"getconn", "getconn_failed", "putconn",
                                      "stmt", "stmt_failed"}}

(***************************************************************************)
(* Claims                                                                  *)
(***************************************************************************)

\* C1: when an execute_query call has ended, on whatever path, every
\* connection it took from a pool has been put back exactly once, into the
\* pool it was taken from, and none is still checked out.
C1_EveryConnectionReturnedOnce ==
    \A t \in Threads :
        Finished(t, "execute_query") =>
            \A c \in ConnsOf(log[t]) :
                /\ Gets(log[t], c) = 1
                /\ Puts(log[t], c) = 1
                /\ \A k \in Places(log[t], {"putconn"}) :
                       log[t][k].conn = c => log[t][k].arg = HomePool(c)
                /\ c \notin inuse

\* C3: when upsert_hot_attributes(t, e, attrs) has returned success, with no
\* other cache writer running, the key entity:{t}:{e} is absent from the
\* cache, whatever the cache held before and however the delete ended.
C3_KeyAbsentAfterUpsert ==
    \A t \in Threads :
        (Finished(t, "upsert_hot_attributes") /\ ret[t] = RetOk) =>
            IsNone(cache[EntityCacheKey(Val(wr[t].tenant_id), Val(wr[t].entity_id))])

\* C4: in a sequential run, when execute_query returns rows served by the
\* primary or by a replica (directly or through the fallback retry), the
\* failure counter is zero.
C4_CounterZeroWhenServed ==
    \A t \in Threads :
        (/\ Finished(t, "execute_query")
         /\ ret[t].kind = "rows"
         /\ ret[t].meta.source \in {PRIMARY, REPLICA}) => failures = 0

\* a call that found Threshold - 1 failures counted, failed once more, was
\* retried on the primary and returned the rows of the retry
C4_Witness ==
    \E t \in Threads :
        /\ Finished(t, "execute_query")
        /\ fr[t].entry = Threshold - 1
        /\ OriginalFailed(log[t])
        /\ ret[t].kind = "rows"
        /\ ret[t].meta.source = PRIMARY
        /\ failures = 0

\* C5: a failed execution is retried against the primary (the fallback
\* acquires the primary for the retry) if and only if the counter, once
\* incremented for this failure, is at least the threshold; the retry is made
\* at most once; below the threshold the original error is raised, nothing is
\* acquired and nothing is retried; an execution that did not fail is not
\* retried either.
C5_RetryIffThresholdReached ==
    \A t \in Threads :
        Finished(t, "execute_query") =>
            LET l == log[t]
                reached == fr[t].tmp + 1 >= 5 IN
            IF OriginalFailed(l)
            THEN /\ Cardinality(FallbackAcquires(l)) = (IF reached THEN 1 ELSE 0)
                 /\ Cardinality(RetryQueries(l)) <= 1
                 /\ RetryQueries(l) # {} =>
                       /\ reached
                       /\ \A k \in RetryQueries(l) : l[k].conn.role = PRIMARY
                 /\ ~reached => ret[t] = RetErr("QueryFailed")
            ELSE /\ FallbackAcquires(l) = {}
                 /\ RetryQueries(l) = {}

\* the fifth counted failure: the query was run again on the primary and
\* its rows returned
C5_Witness ==
    \E t \in Threads :
        /\ Finished(t, "execute_query")
        /\ OriginalFailed(log[t])
        /\ fr[t].tmp + 1 = 5
        /\ RetryQueries(log[t]) # {}
        /\ ret[t].kind = "rows"

\* C7: execute_query with tenant_id = None raises the invalid-argument error
\* at once, for every consistency level and cache key: it takes no
\* connection, does no database or cache I/O and leaves the failure counter
\* as it found it.
C7_MissingTenantRejected ==
    \A t \in Threads :
        (Finished(t, "execute_query") /\ IsNone(fr[t].tenant_id)) =>
            /\ ret[t] = RetErr("ValueError")
            /\ log[t] = <<>>
            /\ inuse = {}
            /\ failures = fr[t].entry

\* a strong call with a cache key and no tenant, made while failures are counted
C7_Witness ==
    \E t \in Threads :
        /\ Finished(t, "execute_query")
        /\ IsNone(fr[t].tenant_id)
        /\ ~IsNone(fr[t].cache_key)
        /\ fr[t].consistency = STRONG
        /\ failures > 0
        /\ ret[t].kind = "error"

\* what C9 says of a call that has returned rows without the fallback
C9_Returned ==
    \A t \in Threads :
        (/\ Finished(t, "execute_query")
         /\ ret[t].kind = "rows"
         /\ ~OriginalFailed(log[t])) =>
            LET l == log[t]
                m == ret[t].meta IN
            /\ fr[t].consistency \in {STRONG, ANALYTICS} =>
                  /\ m = QueryMetadata(PRIMARY, 0, fr[t].consistency)
                  /\ CacheCommands(l) = {}
                  /\ \A k \in Places(l, {"stmt"}) : l[k].conn.role = PRIMARY
            /\ (fr[t].consistency = EVENTUAL /\ m.source # REDIS) =>
                  /\ m.consistency = EVENTUAL
                  /\ m.source \in {PRIMARY, REPLICA}
                  /\ \A k \in Places(l, {"stmt"}) : l[k].conn.role = m.source
                  /\ m.source = REPLICA =>
                        /\ m.lag_ms <= 3000
                        /\ m.lag_ms = fr[t].lag_ms
                        /\ \A k \in Places(l, {"stmt"}) : l[k].conn.idx = fr[t].replica_idx
                  /\ m.source = PRIMARY => m.lag_ms = 0

\* what C9 says of the step that selects the backend of an eventual read
C9_Selected ==
    \A t \in Threads :
        (pc[t] = "eq_route" /\ pc'[t] = "eq_bind" /\ fr[t].consistency = EVENTUAL) =>
            LET f == fr'[t] IN
            IF f.source = REPLICA
            THEN /\ f.replica_idx \in DOMAIN replica_lag
                 /\ replica_lag[f.replica_idx] <= 3000
                 /\ f.lag_ms = replica_lag[f.replica_idx]
                 /\ f.conn.role = REPLICA
                 /\ f.conn.idx = f.replica_idx
            ELSE /\ \A i \in DOMAIN replica_lag : replica_lag[i] > 3000
                 /\ f.source = PRIMARY
                 /\ f.lag_ms = 0
                 /\ f.conn.role = PRIMARY

\* C9: a read not answered by the fallback follows its consistency level:
\* strong and analytics reads are served by the primary with lag 0 and touch
\* no cache; an eventual read without a cache hit is served by a replica only
\* if the lag vector holds at most 3000 ms for it when it is selected, which
\* is the lag reported, and by the primary with lag 0 and consistency
\* eventual when every replica is above 3000 ms.
C9_BackendFollowsConsistency == []C9_Returned /\ [][C9_Selected]_vars

\* an eventual read served by the primary because both replicas lag
C9_Witness ==
    \E t \in Threads :
        /\ Finished(t, "execute_query")
        /\ ret[t].kind = "rows"
        /\ ~OriginalFailed(log[t])
        /\ fr[t].consistency = EVENTUAL
        /\ ret[t].meta = QueryMetadata(PRIMARY, 0, EVENTUAL)
        /\ \A i \in DOMAIN replica_lag : replica_lag[i] > 3000

\* C6: get_replica_conn(B) returns a connection of the pool of replica i with
\* role replica, index i and lag[i], where lag[i] <= B, lag[i] is the least
\* lag within the bound and i the lowest index with that lag; or, when no
\* replica is within the bound (or there is none), a primary connection with
\* role primary, index -1 and lag 0.
C6_LeastLaggedLowestIndex ==
    sel.called =>
        LET B == sel.max_lag_ms
            r == sel.result
            within == {i \in DOMAIN replica_lag : replica_lag[i] <= B} IN
        IF within # {}
        THEN /\ r.source = REPLICA
             /\ r.idx \in within
             /\ \A j \in within : replica_lag[r.idx] <= replica_lag[j]
             /\ \A j \in within : replica_lag[j] = replica_lag[r.idx] => r.idx <= j
             /\ r.lag_ms = replica_lag[r.idx]
             /\ sel.conn.role = REPLICA
             /\ sel.conn.idx = r.idx
        ELSE /\ r = [source |-> PRIMARY, idx |-> -1, lag_ms |-> 0]
             /\ sel.conn.role = PRIMARY

\* two replicas within the bound with the same lag: the first is returned
C6_Witness ==
    /\ sel.called
    /\ NumReplicas(replica_lag) = 2
    /\ replica_lag[0] = replica_lag[1]
    /\ replica_lag[0] <= sel.max_lag_ms
    /\ sel.result.source = REPLICA
    /\ sel.result.idx = 0

\* the cache holds, under the key of the entity, rows older than those committed
StaleEntry(key) == ~IsNone(cache[key]) /\ Val(cache[key]) # Rows(dbver)

\* C2: once upsert_hot_attributes(t, e, attrs) has returned success (its
\* cache delete having gone through) and the reader running beside it has
\* finished, the key entity:{t}:{e} does not hold the rows of before the
\* write.
C2_NoStaleRepopulation ==
    (/\ Finished("t1", "execute_query")
     /\ Finished("t2", "upsert_hot_attributes")
     /\ ret["t2"] = RetOk
     /\ Places(log["t2"], {"cache_delete"}) # {}) =>
        ~StaleEntry(EntityCacheKey(Val(wr["t2"].tenant_id), Val(wr["t2"].entity_id)))

\* the entries of the record of runs that are of one kind
RunsOf(what) == {k \in DOMAIN runs : runs[k].what = what}

\* the distance of two clock readings
Apart(a, b) == IF a >= b THEN a - b ELSE b - a

\* C8: of the check_replica_lag invocations that start within one lag-check
\* interval (10 s) of each other, on one thread or on two, at most one does
\* database I/O: two runs that did work started at least an interval apart.
C8_OneLagCheckPerInterval ==
    \A j, k \in RunsOf("check_replica_lag") :
        j # k => Apart(runs[j].at, runs[k].at) >= LagCheckInterval

\* C10: stage_flush is invoked at most once per flush interval (100 ms) over
\* all ingest_telemetry calls, on one thread or on two, and at most once in
\* one call.  Only the invocations that succeeded are counted here: one that
\* failed leaves _last_flush as it was.
C10_OneDrainPerInterval ==
    /\ \A j, k \in RunsOf("stage_flush") :
          j # k => Apart(runs[j].at, runs[k].at) >= FlushIntervalMs
    /\ \A t \in Threads : wr[t].flushes <= 1

\* the call could not get its first connection: the pool refused it before
\* any statement was sent
AcquisitionFailed(l) ==
    /\ Places(l, {"getconn_failed"}) # {}
    /\ Places(l, {"getconn", "stmt", "stmt_failed"}) = {}

\* C11: in a sequential run, an execute_query call that ends because the
\* pool of its backend (the primary or the selected replica) refused the
\* connection has advanced the failure counter by one, as a failed
\* statement does.
C11_AcquisitionFailureCounted ==
    \A t \in Threads :
        (Finished(t, "execute_query") /\ AcquisitionFailed(log[t])) =>
            failures = fr[t].entry + 1

\* the place of the acquisition the fallback made
FallbackGets(l) == {k \in Places(l, {"getconn"}) : l[k].conn.id = 2}

\* C13: once the fallback of an execute_query call has acquired the primary,
\* the connection the call acquired first has already been put back, once,
\* into the pool it came from (replica_pools[i] or the primary pool); and a
\* call whose retried query succeeded returns the rows of the retry with
\* metadata (primary, 0, strong), whatever level was asked for, and leaves
\* the counter at zero.
C13_ReleaseBeforeFallback ==
    \A t \in Threads :
        op[t] = "execute_query" =>
            LET l == log[t] IN
            /\ \A k \in FallbackGets(l) :
                  /\ l[k].conn.role = PRIMARY
                  /\ \E g \in Places(l, {"getconn"}) :
                        /\ g < k
                        /\ l[g].conn.id = 1
                        /\ Cardinality({j \in Places(l, {"putconn"}) :
                                           j < k /\ l[j].conn = l[g].conn}) = 1
                        /\ \A j \in Places(l, {"putconn"}) :
                               (j < k /\ l[j].conn = l[g].conn) =>
                                   /\ g < j
                                   /\ l[j].arg = HomePool(l[g].conn)
                        /\ l[g].conn \notin inuse
            /\ (/\ Finished(t, "execute_query")
                /\ \E k \in RetryQueries(l) : l[k].ev = "stmt") =>
                  /\ ret[t] = RetRows(fr[t].results, QueryMetadata(PRIMARY, 0, STRONG))
                  /\ ret[t].rows = Rows(dbver)
                  /\ failures = 0

\* an eventual read that failed on a replica, was retried on the primary and
\* came back as strong
C13_Witness ==
    \E t \in Threads :
        /\ Finished(t, "execute_query")
        /\ fr[t].consistency = EVENTUAL
        /\ \E g \in Places(log[t], {"getconn"}) : log[t][g].conn.role = REPLICA
        /\ \E k \in RetryQueries(log[t]) : log[t][k].ev = "stmt"
        /\ ret[t].meta = QueryMetadata(PRIMARY, 0, STRONG)

\* C17: in every execute_query call, on the normal path and on the fallback
\* path, each query statement is sent on a connection on which SET LOCAL
\* app.current_tenant_id has been run before it in the same call, after that
\* connection was acquired.
C17_TenantBoundBeforeQuery ==
    \A t \in Threads :
        op[t] = "execute_query" =>
            LET l == log[t] IN
            \A k \in Places(l, {"stmt", "stmt_failed"}) :
                l[k].arg = "query" =>
                    \E j \in Places(l, {"stmt"}) :
                        /\ j < k
                        /\ l[j].arg = "set_tenant"
                        /\ l[j].conn = l[k].conn
                        /\ \E g \in Places(l, {"getconn"}) :
                               g < j /\ l[g].conn = l[k].conn

\* a call that ran its query on the first connection and again on the
\* fallback connection
C17_Witness ==
    \E t \in Threads :
        /\ Finished(t, "execute_query")
        /\ \E k \in Places(log[t], {"stmt_failed"}) :
               log[t][k].arg = "query" /\ log[t][k].conn.id = 1
        /\ \E k \in RetryQueries(log[t]) : log[t][k].ev = "stmt"

\* C18: an execute_query call answered from the cache has done one cache
\* read and nothing else: no connection was asked for, no cache write was
\* made, nothing is checked out, and the failure counter is what it was when
\* the call began.
C18_CacheHitChangesNothing ==
    \A t \in Threads :
        (/\ Finished(t, "execute_query")
         /\ ret[t].kind = "rows"
         /\ ret[t].meta.source = REDIS) =>
            /\ Len(log[t]) = 1
            /\ log[t][1].ev = "cache_get"
            /\ inuse = {}
            /\ failures = fr[t].entry
            /\ ret[t].rows = Val(cache[Val(fr[t].cache_key)])

\* a cache hit while failures are counted
C18_Witness ==
    \E t \in Threads :
        /\ Finished(t, "execute_query")
        /\ ret[t].kind = "rows"
        /\ ret[t].meta.source = REDIS
        /\ failures > 0
        /\ fr[t].entry = failures

\* the fallback of the call did not return rows: its acquisition, its
\* SET LOCAL or its query failed
FallbackFailed(l) ==
    /\ FallbackAcquires(l) # {}
    /\ ~\E k \in RetryQueries(l) : l[k].ev = "stmt"

\* C19: in a sequential run, a call whose fallback failed raises, with the
\* counter one above what the call found and at or above the threshold
\* (neither reset nor incremented again); and a failing call that finds the
\* counter at or above the threshold takes the fallback again.
C19_BreakerStaysOpen ==
    \A t \in Threads :
        Finished(t, "execute_query") =>
            LET l == log[t] IN
            /\ (OriginalFailed(l) /\ FallbackFailed(l)) =>
                  /\ ret[t].kind = "error"
                  /\ failures = fr[t].entry + 1
                  /\ failures >= Threshold
            /\ (OriginalFailed(l) /\ fr[t].entry >= Threshold) =>
                  FallbackAcquires(l) # {}

\* a failing call that found the breaker open took the fallback again, and
\* the fallback failed again
C19_Witness ==
    \E t \in Threads :
        /\ Finished(t, "execute_query")
        /\ OriginalFailed(log[t])
        /\ fr[t].entry = Threshold
        /\ FallbackFailed(log[t])
        /\ ret[t].kind = "error"
        /\ failures = Threshold + 1

\* the smaller of two counts
Min2(a, b) == IF a <= b THEN a ELSE b

\* the call failed on its first connection and no query of it succeeded
FailedExecution(l) ==
    /\ OriginalFailed(l)
    /\ ~\E k \in Places(l, {"stmt"}) : l[k].arg = "query"

\* C14: when the calls of the two threads have both failed, neither having
\* succeeded in a retry, the failure counter stands two above what it was
\* before them: no increment is lost.
C14_NoLostIncrement ==
    (/\ Finished("t1", "execute_query")
     /\ Finished("t2", "execute_query")
     /\ FailedExecution(log["t1"])
     /\ FailedExecution(log["t2"])) =>
        failures = Min2(fr["t1"].entry, fr["t2"].entry) + 2

\* C15: the lag vector has one slot per replica and every slot holds a
\* non-negative integer, a heartbeat stamped ahead of the primary clock
\* included.
C15_LagNonNegative ==
    /\ DOMAIN replica_lag = 0 .. ConfiguredReplicas - 1
    /\ \A i \in DOMAIN replica_lag : replica_lag[i] \in Nat

\* the run of log l could not get a connection of replica i, or its
\* heartbeat query on replica i failed
ReplicaFailed(l, i) ==
    \/ \E k \in Places(l, {"getconn_failed"}) : l[k].arg = PoolName(REPLICA, i)
    \/ \E k \in Places(l, {"stmt_failed"}) :
          l[k].arg = "heartbeat" /\ l[k].conn.idx = i

\* the run of log l asked the pool of replica i for a connection
ReplicaTried(l, i) ==
    \E k \in Places(l, {"getconn", "getconn_failed"}) : l[k].arg = PoolName(REPLICA, i)

\* C16: in a check_replica_lag run that does work, a failure to acquire or
\* to query replica i leaves lag[i] at 999999; the run goes on to every
\* later replica and returns True; and when the run has ended, on any path,
\* each connection it took (the primary one and the replica ones) has been
\* put back exactly once into its own pool.
C16_ReplicaFailureContained ==
    \A t \in Threads :
        op[t] = "check_replica_lag" =>
            LET l == log[t] IN
            /\ \A i \in DOMAIN replica_lag :
                  ReplicaFailed(l, i) => replica_lag[i] = Unavailable
            /\ (/\ Finished(t, "check_replica_lag")
                /\ \E k \in Places(l, {"stmt"}) : l[k].arg = "clock") =>
                  /\ ret[t] = RetBool(TRUE)
                  /\ \A i \in DOMAIN replica_lag : ReplicaTried(l, i)
            /\ Finished(t, "check_replica_lag") =>
                  \A c \in ConnsOf(l) :
                      /\ Gets(l, c) = 1
                      /\ Puts(l, c) = 1
                      /\ \A k \in Places(l, {"putconn"}) :
                             l[k].conn = c => l[k].arg = HomePool(c)
                      /\ c \notin inuse

\* a run in which replica 0 failed and replica 1 was read all the same
C16_Witness ==
    \E t \in Threads :
        /\ Finished(t, "check_replica_lag")
        /\ ReplicaFailed(log[t], 0)
        /\ replica_lag[0] = Unavailable
        /\ \E k \in Places(log[t], {"stmt"}) :
               log[t][k].arg = "heartbeat" /\ log[t][k].conn.idx = 1
        /\ replica_lag[1] # Unavailable
        /\ ret[t] = RetBool(TRUE)
        /\ inuse = {}

\* the run of log l read a heartbeat row from replica i
HeartbeatRead(l, i) ==
    \E k \in Places(l, {"stmt"}) : l[k].arg = "heartbeat" /\ l[k].conn.idx = i

\* C20: when a check_replica_lag run that did work has returned, each slot
\* holds the sentinel or the lag of a heartbeat row read in that run: a
\* replica that gave no row does not keep the value it had.
C20_NoStaleLagAfterRun ==
    \A t \in Threads :
        (Finished(t, "check_replica_lag") /\ ret[t] = RetBool(TRUE)) =>
            \A i \in DOMAIN replica_lag :
                replica_lag[i] = Unavailable \/ HeartbeatRead(log[t], i)

\* the text s cut at every separator sep, cur being the piece under way
RECURSIVE Split(_, _, _)
Split(s, sep, cur) ==
    IF s = <<>> THEN <<cur>>
    ELSE IF Head(s) = sep THEN <<cur>> \o Split(Tail(s), sep, <<>>)
    ELSE Split(Tail(s), sep, Append(cur, Head(s)))

\* the cell C12 expects for a field
ExpectedCell(val) ==
    IF val.kind \in {"absent", "none"} \/ val = PyStr(<<>>)
    THEN NullSentinel
    ELSE Str(val)

\* C12: for every list of events, ingest_telemetry builds one copy line per
\* event, and each line has exactly seven tab-separated cells, in the order
\* entity_id, tenant_id, attribute_id, value, value_int, value_decimal,
\* ingested_at; the cell of a field that is absent, None or the empty string
\* is the null sentinel, every other cell is the string form of its value,
\* and no cell is empty.
C12_SevenCellsPerEvent ==
    \A t \in Threads :
        op[t] = "csv_lines" =>
            LET events == wr[t].events
                lines == wr[t].csv_lines IN
            /\ Len(lines) = Len(events)
            /\ \A k \in DOMAIN lines :
                  LET cells == Split(lines[k], Tab, <<>>) IN
                  /\ Len(cells) = Len(Columns)
                  /\ \A c \in DOMAIN cells :
                        /\ c \in DOMAIN Columns =>
                              cells[c] = ExpectedCell(events[k][Columns[c]])
                        /\ cells[c] # <<>>
====
